---- MODULE Spec2Model ----
(***************************************************************************)
(* A model of the CBIS-DDSM image organizers:                              *)
(*   src/cbis_correct.py  CBISDDSMCorrectOrganizer and its main()          *)
(*   src/cbis_final.py    CBISDDSMFixedOrganizer and its main(), and       *)
(*                        CBISDDSMOrganizer with its driver                *)
(*                                                                         *)
(* A string is a sequence of tokens ("S1", "/", "000000", ".", "jpg", ...): *)
(* str.split('/'), str.lower() and the substring test `x in y` are         *)
(* computed on tokens; the strings of the dataset below are cut into       *)
(* tokens so that one contains another as tokens exactly when it does as   *)
(* characters.  A file of the jpeg tree is a record                *)
(* [dir, stem, ext]: jpeg/<dir>/<stem>.<ext>.  A destination folder holds  *)
(* such records too: the (stem, ext) of an entry is the name it has in the *)
(* folder and the whole record tells whose bytes it holds.                 *)
(***************************************************************************)
EXTENDS Integers, Sequences, FiniteSets, TLC

\* ------------------------------------------------------------------ bounds
\* At most this many image files lie under the jpeg root.
MaxFiles == 2
\* The script is executed at most this many times on the same dataset.
MaxRuns == 2

\* ------------------------------------------------------- program constants
\* The expected total of the verification pass.
ExpectedTotal == 10237
\* Only the first MaxErrorsPrinted errors are printed.
MaxErrorsPrinted == 5

\* ------------------------------------------------------------------ strings
\* The missing value of a CSV cell (pandas' NaN).
NaN == <<"<NaN>">>

\* str.lower(), token by token.
LowerTok(t) ==
    CASE t = "Calc" -> "calc"
      [] t = "CALC" -> "calc"
      [] t = "Mass" -> "mass"
      [] t = "MASS" -> "mass"
      [] t = "JPG"  -> "jpg"
      [] t = "JPEG" -> "jpeg"
      [] OTHER      -> t

Lower(s) == [i \in 1..Len(s) |-> LowerTok(s[i])]

\* Python's `sub in s` on strings.
Contains(s, sub) ==
    \E i \in 0..(Len(s) - Len(sub)) :
        \A j \in 1..Len(sub) : s[i + j] = sub[j]

\* str.strip(): truthy when something other than whitespace is left.
StripNonEmpty(s) == \E i \in 1..Len(s) : s[i] /= " "

\* The positions of the '/' tokens of s, and str.split('/').
RECURSIVE SplitFrom(_, _)
SplitFrom(s, acc) ==
    IF s = <<>> THEN <<acc>>
    ELSE IF Head(s) = "/" THEN <<acc>> \o SplitFrom(Tail(s), <<>>)
    ELSE SplitFrom(Tail(s), Append(acc, Head(s)))

Split(s) == SplitFrom(s, <<>>)

\* The elements of a sequence.
Range(s) == {s[i] : i \in DOMAIN s}

\* ------------------------------------------------------------- the dataset
\* The directories and file names the jpeg tree is drawn from.
SeriesDirs == {<<"S1">>, <<"S2">>, <<"Mass", "-", "S3">>}
FileNames  == {[stem |-> <<"1-263">>, ext |-> "jpg"],
               [stem |-> <<"000000">>, ext |-> "jpg"],
               [stem |-> <<"Calc", "_", "c">>, ext |-> "JPEG"]}
JpegFiles  ==
    {[dir |-> d, stem |-> n.stem, ext |-> n.ext] :
        d \in SeriesDirs, n \in FileNames}
      \ {[dir |-> <<"S2">>, stem |-> <<"Calc", "_", "c">>, ext |-> "JPEG"],
         [dir |-> <<"Mass", "-", "S3">>, stem |-> <<"000000">>, ext |-> "jpg"]}

\* Path.name of a file.
Name(f) == f.stem \o <<".", f.ext>>

\* The case description files of the csv folder, each a table of rows whose
\* 'image file path' cell is a path or is missing.
CalcFiles == <<"calc_case_description_train_set.csv",
               "calc_case_description_test_set.csv">>
MassFiles == <<"mass_case_description_train_set.csv",
               "mass_case_description_test_set.csv">>

CaseTable(filename) ==
    CASE filename = "calc_case_description_train_set.csv" ->
            << <<"Calc", "-", "Training", "_", "P1", "/", "S1", "/", "S1", "/", "000000", ".", "dcm">>,
               NaN >>
      [] filename = "calc_case_description_test_set.csv" ->
            << <<"Calc", "-", "Test", "_", "P2", "/", "S2", "/", "S2", "/", "000000", ".", "dcm">>,
               <<"S3">> >>
      [] filename = "mass_case_description_train_set.csv" ->
            << <<" ">>,
               <<"Mass", "-", "Training", "_", "P3", "/", "S2", "/", "S2", "/", "000001", ".", "dcm">> >>
      [] filename = "mass_case_description_test_set.csv" ->
            << <<"Mass", "-", "Test", "_", "P4", "/", "S1", "/", "S1", "/", "000000", ".", "dcm">> >>

\* dicom_info.csv: rows of image_path, SeriesInstanceUID and PatientName,
\* each cell a string or missing.
DicomInfo == "dicom_info.csv"

DicomTable ==
    << [image_path |-> <<"CBIS-DDSM", "/", "jpeg", "/", "D1", "/", "1-263", ".", "jpg">>,
        SeriesInstanceUID |-> <<"D1">>,
        PatientName |-> <<"Mass", "-", "Training", "_", "P5">>],
       [image_path |-> <<"CBIS-DDSM", "/", "jpeg", "/", "D2", "/", "Calc", "_", "c", ".", "JPEG">>,
        SeriesInstanceUID |-> <<"D2">>,
        PatientName |-> <<"Calc", "-", "Test", "_", "P6">>],
       [image_path |-> <<"CBIS-DDSM", "/", "jpeg", "/", "D3", "/", "000000", ".", "jpg">>,
        SeriesInstanceUID |-> <<"D3">>,
        PatientName |-> NaN],
       [image_path |-> NaN,
        SeriesInstanceUID |-> <<"D1">>,
        PatientName |-> <<"Calc", "-", "Training", "_", "P7">>] >>

\* meta.csv: its columns and rows (a row maps each column to a cell).
MetaFile == "meta.csv"
MetaColumns == {"SeriesInstanceUID", "StudyInstanceUID", "Modality",
                "SeriesDescription", "BodyPartExamined", "SeriesNumber",
                "Collection", "Visibility", "ImageCount"}
MetaTable ==
    << [c \in MetaColumns |->
          CASE c = "SeriesInstanceUID" -> <<"S1">>
            [] c = "StudyInstanceUID"  -> <<"T1">>
            [] c = "SeriesDescription" -> <<"full", " ", "mammogram", " ", "images">>
            [] OTHER                   -> <<"1">>] >>

\* The dataset path of the scripts, which every image path starts with.
BasePath == <<"/", "home", "/", "mdbasit_tezu_ernet_in", "/", ".cache", "/",
              "kagglehub", "/", "datasets", "/", "awsaf49", "/",
              "cbis-ddsm-breast-cancer-image-dataset", "/", "versions", "/", "1">>

VARIABLES
    \* the file system
    csv_dir,        \* the names of the files present in the csv folder
    jpeg,           \* the files under the jpeg root, in traversal order
    unreadable,     \* the files of jpeg whose copy raises
    dirs,           \* the destination folders that exist
    organized,      \* the content of each destination folder
    \* the process
    prog,           \* which script is executed
    run,            \* how many times it has been started
    pc,             \* where the process is
    calc_series, mass_series, all_images, idx,
    calc_moved, mass_moved, unknown_moved, errors, printed,
    outcomes,       \* the calls of shutil.copy2 of this run, in order
    total_organized, success, located,
    final_mapping,  \* CBISDDSMFixedOrganizer: the mapping, in insertion order
    method, calc_images, mass_images, unmatched,    \* CBISDDSMOrganizer
    prev            \* what the previous execution reported and left behind

fsvars   == <<csv_dir, jpeg, unreadable, dirs, organized>>
loopvars == <<calc_series, mass_series, all_images, idx,
              calc_moved, mass_moved, unknown_moved, errors, printed, outcomes>>
endvars  == <<total_organized, success, located>>
orgvars  == <<method, calc_images, mass_images, unmatched>>
vars     == <<fsvars, prog, run, pc, loopvars, endvars, final_mapping, orgvars,
              prev>>

\* ---------------------------------------------------------- the file system
\* The three destination folders under <base>/organized.
CalcDir    == "calcifications"
MassDir    == "masses"
UnknownDir == "unknown"
DestDirs   == {CalcDir, MassDir, UnknownDir}

\* A mkdir that creates nothing.
MkdirNothing(ds, d) == ds

\* Path.mkdir(parents=True, exist_ok=True): the folder exists afterwards and
\* what it holds is kept.
Mkdir(ds, d) == ds \cup {d}

\* The extensions the traversal looks for, in the order of the glob calls.
Exts == <<"jpg", "jpeg", "JPG", "JPEG">>

\* glob.glob(jpeg_path/**/<*.ext>, recursive=True): the files of the tree with
\* that extension, in traversal order.
GlobExt(tree, e) == SelectSeq(tree, LAMBDA f : f.ext = e)

\* The four glob calls, one after the other.
RECURSIVE GlobFrom(_, _)
GlobFrom(tree, k) ==
    IF k > Len(Exts) THEN <<>>
    ELSE GlobExt(tree, Exts[k]) \o GlobFrom(tree, k + 1)

FindAllJpeg(tree) == GlobFrom(tree, 1)

\* shutil.copy2(src, dst) raises when the source cannot be read or the
\* destination folder does not exist.
CopyRaises(f, d, ds) == f \in unreadable \/ d \notin ds

\* One call of shutil.copy2, as the process sees it: the file, the category
\* it was given, and whether the call returned.
Outcome(f, category, d, ds) ==
    [file |-> f, category |-> category, copied |-> ~CopyRaises(f, d, ds)]

\* A copy that leaves a file of that name in the folder as it is.
Copy2KeepExisting(org, d, f) ==
    IF \E g \in org[d] : Name(g) = Name(f) THEN org
    ELSE [org EXCEPT ![d] = @ \cup {f}]

\* shutil.copy2(src, folder/filename): the folder holds a file of that name
\* with the bytes of src, in place of any file of that name it held.
Copy2(org, d, f) ==
    [org EXCEPT ![d] = {g \in @ : Name(g) /= Name(f)} \cup {f}]

\* Path(folder).glob("*.jpg"): the entries of the folder the pattern matches.
GlobJpg(org, d) == {g \in org[d] : g.ext = "jpg"}

\* ------------------------------------------- CBISDDSMCorrectOrganizer
\* The rows of a case description table that give a series: the cell is
\* present, is not blank, and its path has at least two segments.
UsableStripped(cell) ==
    /\ cell /= NaN
    /\ StripNonEmpty(cell)
    /\ Len(Split(cell)) >= 2

\* An extraction that takes the first path segment of the usable rows.
SeriesUidsFirstSegment(files, present) ==
    UNION { { Split(CaseTable(files[k])[r])[1] :
                r \in { q \in 1..Len(CaseTable(files[k])) :
                          UsableStripped(CaseTable(files[k])[q]) } } :
            k \in { j \in 1..Len(files) : files[j] \in present } }

\* get_calc_series_uids / get_mass_series_uids: the second path segment of
\* every usable row of every file of the list that exists.
SeriesUidsStripped(files, present) ==
    UNION { { Split(CaseTable(files[k])[r])[2] :
                r \in { q \in 1..Len(CaseTable(files[k])) :
                          UsableStripped(CaseTable(files[k])[q]) } } :
            k \in { j \in 1..Len(files) : files[j] \in present } }

\* rel_path.parts[0]: the first segment of the file's path under the jpeg root.
SeriesUidOf(f) == f.dir

\* Category with the two tests in the other order.
CategoryMassFirst(series_uid, calcs, masses) ==
    IF series_uid \in masses THEN "mass"
    ELSE IF series_uid \in calcs THEN "calc"
    ELSE "unknown"

\* The if / elif / else of organize_all_images.
Category(series_uid, calcs, masses) ==
    IF series_uid \in calcs THEN "calc"
    ELSE IF series_uid \in masses THEN "mass"
    ELSE "unknown"

\* DirOf with the destination of the calc branch pasted into the mass branch.
DirOfPasted(category) ==
    CASE category = "calc" -> CalcDir
      [] category = "mass" -> CalcDir
      [] OTHER             -> UnknownDir

\* The folder a category is copied into.
DirOf(category) ==
    CASE category = "calc" -> CalcDir
      [] category = "mass" -> MassDir
      [] OTHER             -> UnknownDir

\* --------------------------------------------- CBISDDSMFixedOrganizer
\* pd.notna of a cell.
NotNa(cell) == cell /= NaN

\* Path(p).name: the last segment of a path.
PathName(p) == Split(p)[Len(Split(p))]

\* The rows of dicom_info that enter the two filename mappings.
DicomMapped(df) ==
    {i \in 1..Len(df) : NotNa(df[i].image_path) /\ NotNa(df[i].SeriesInstanceUID)}

\* `filename in filename_to_series`.
HasFilename(df, filename) ==
    \E i \in DicomMapped(df) : PathName(df[i].image_path) = filename

\* filename_to_series[filename]: a later row overwrites an earlier one.
FilenameToSeries(df, filename) ==
    LET rows == {i \in DicomMapped(df) : PathName(df[i].image_path) = filename}
        last == CHOOSE i \in rows : \A j \in rows : j <= i
    IN  df[last].SeriesInstanceUID

\* dicom_df[dicom_df['SeriesInstanceUID'] == series].
MatchingRows(df, series) ==
    SelectSeq(df, LAMBDA r : r.SeriesInstanceUID = series)

\* The rows of a case description table that give a series: the cell is
\* present and its path has at least two segments.
UsableUnstripped(cell) ==
    /\ NotNa(cell)
    /\ Len(Split(cell)) >= 2

\* Step 2 of create_complete_mapping, for one list of files.
SeriesUidsUnstripped(files, present) ==
    UNION { { Split(CaseTable(files[k])[r])[2] :
                r \in { q \in 1..Len(CaseTable(files[k])) :
                          UsableUnstripped(CaseTable(files[k])[q]) } } :
            k \in { j \in 1..Len(files) : files[j] \in present } }

\* Method 2 of create_complete_mapping: the category PatientName gives, with
\* its source.
PatientCategory(df, filename) ==
    IF ~HasFilename(df, filename) THEN <<"unknown", "default">>
    ELSE LET matching_rows == MatchingRows(df, FilenameToSeries(df, filename))
         IN  IF matching_rows = <<>> THEN <<"unknown", "default">>
             ELSE LET patient_name == matching_rows[1].PatientName
                  IN  IF ~NotNa(patient_name) THEN <<"unknown", "default">>
                      ELSE IF Contains(Lower(patient_name), <<"mass">>)
                           THEN <<"mass", "dicom_info">>
                      ELSE IF Contains(Lower(patient_name), <<"calc">>)
                           THEN <<"calc", "dicom_info">>
                      ELSE <<"unknown", "default">>

\* The category and the source create_complete_mapping gives a file.
MappingCategory(f, calcs, masses, df) ==
    IF SeriesUidOf(f) \in calcs THEN <<"calc", "case_files">>
    ELSE IF SeriesUidOf(f) \in masses THEN <<"mass", "case_files">>
    ELSE PatientCategory(df, Name(f))

\* The entry stored for a file.
MappingEntry(f, calcs, masses, df) ==
    [filename   |-> Name(f),
     category   |-> MappingCategory(f, calcs, masses, df)[1],
     source     |-> MappingCategory(f, calcs, masses, df)[2],
     series_uid |-> SeriesUidOf(f),
     full_path  |-> f]

\* final_mapping[filename] = entry: a new key is added at the end, a key the
\* dict holds keeps its place and takes the new value.
DictPut(m, e) ==
    IF \E i \in 1..Len(m) : m[i].filename = e.filename
    THEN [i \in 1..Len(m) |-> IF m[i].filename = e.filename THEN e ELSE m[i]]
    ELSE Append(m, e)

\* Step 3 of create_complete_mapping: the loop over all_images.
RECURSIVE BuildMapping(_, _, _, _, _)
BuildMapping(images, m, calcs, masses, df) ==
    IF images = <<>> THEN m
    ELSE BuildMapping(Tail(images),
                      DictPut(m, MappingEntry(Head(images), calcs, masses, df)),
                      calcs, masses, df)

\* ------------------------------------------------------ CBISDDSMOrganizer
\* str(img_path).
PathStr(f) == BasePath \o <<"/", "jpeg", "/">> \o f.dir \o <<"/">> \o Name(f)

\* The csv_files dict of load_csv_files: keys, in order, and their files.
CsvKeys == << <<"calc", "_", "train">>, <<"calc", "_", "test">>,
              <<"mass", "_", "train">>, <<"mass", "_", "test">>,
              <<"meta">>, <<"dicom", "_", "info">> >>

FileOfKey(key) ==
    CASE key = <<"calc", "_", "train">> -> "calc_case_description_train_set.csv"
      [] key = <<"calc", "_", "test">>  -> "calc_case_description_test_set.csv"
      [] key = <<"mass", "_", "train">> -> "mass_case_description_train_set.csv"
      [] key = <<"mass", "_", "test">>  -> "mass_case_description_test_set.csv"
      [] key = <<"meta">>               -> MetaFile
      [] OTHER                          -> DicomInfo

\* load_csv_files: the keys of self.dataframes, those whose file exists.
Dataframes(present) == {k \in Range(CsvKeys) : FileOfKey(k) \in present}

\* df['image file path'].dropna().astype(str) of a case description table.
CaseRefs(filename) ==
    {CaseTable(filename)[r] :
        r \in {q \in 1..Len(CaseTable(filename)) : NotNa(CaseTable(filename)[q])}}

\* The first column of a list that a table has.
NoColumn == "<none>"
FirstColumn(cols, columns) ==
    IF \E i \in 1..Len(cols) : cols[i] \in columns
    THEN cols[CHOOSE i \in 1..Len(cols) :
                 /\ cols[i] \in columns
                 /\ \A j \in 1..(i - 1) : cols[j] \notin columns]
    ELSE NoColumn

\* Method 2 of get_image_mappings: the image references of the meta rows
\* whose category column contains the keyword.
MetaRefs(keyword) ==
    LET col     == FirstColumn(<<"abnormality", "pathology", "category", "type">>,
                               MetaColumns)
        img_col == FirstColumn(<<"image file path", "file_path", "SeriesInstanceUID">>,
                               MetaColumns)
    IN  IF col = NoColumn \/ img_col = NoColumn THEN {}
        ELSE {MetaTable[i][img_col] :
                i \in {q \in 1..Len(MetaTable) :
                         /\ NotNa(MetaTable[q][col])
                         /\ Contains(Lower(MetaTable[q][col]), <<keyword>>)
                         /\ NotNa(MetaTable[q][img_col])}}

\* get_image_mappings: calc_images and mass_images.
CalcImages(present) ==
    UNION {CaseRefs(FileOfKey(k)) :
             k \in {q \in Dataframes(present) : Contains(q, <<"calc">>)}}
      \cup (IF MetaFile \in present THEN MetaRefs("calc") ELSE {})

MassImages(present) ==
    UNION {CaseRefs(FileOfKey(k)) :
             k \in {q \in Dataframes(present) :
                      ~Contains(q, <<"calc">>) /\ Contains(q, <<"mass">>)}}
      \cup (IF MetaFile \in present THEN MetaRefs("mass") ELSE {})

\* The test of organize_images_by_csv_mapping for one reference.
RefMatches(f, ref) ==
    \/ Contains(ref, Name(f))
    \/ Contains(ref, f.stem)
    \/ Contains(PathStr(f), ref)

\* What organize_images_by_csv_mapping does with an image.
CsvCategory(f, calcs, masses) ==
    IF \E ref \in calcs : RefMatches(f, ref) THEN "calc"
    ELSE IF \E ref \in masses : RefMatches(f, ref) THEN "mass"
    ELSE "unmatched"

\* What organize_images_by_filename_pattern does with an image.
PatternCategory(f) ==
    IF Contains(Lower(PathStr(f)), <<"calc">>) THEN "calc"
    ELSE IF Contains(Lower(PathStr(f)), <<"mass">>) THEN "mass"
    ELSE "unknown"

\* A move in place of the copy: the source is gone.
SourceAfterMove(tree, f) == SelectSeq(tree, LAMBDA g : g /= f)

\* shutil.copy2 copies: the source stays where it is.
SourceAfterCopy(tree, f) == tree

\* ------------------------------------------------------------ initial state
\* The jpeg trees: up to MaxFiles different files, in any traversal order.
FileLists ==
    {s \in UNION {[1..n -> JpegFiles] : n \in 0..MaxFiles} :
        \A i, j \in DOMAIN s : i /= j => s[i] /= s[j]}

CsvNames == Range(CalcFiles) \cup Range(MassFiles) \cup {DicomInfo, MetaFile}

\* The csv folders the dataset is drawn from: nothing; dicom_info alone; the
\* two test sets with dicom_info; the two training sets without it; all files.
CsvDirs ==
    { {},
      {DicomInfo},
      {CalcFiles[2], MassFiles[2], DicomInfo},
      {CalcFiles[1], MassFiles[1], MetaFile},
      CsvNames }

Programs == {"correct", "fixed", "organizer"}

\* No execution has gone before.
NoPrev == [run |-> 0, counts |-> <<0, 0, 0, 0>>,
           organized |-> [d \in DestDirs |-> {}]]

ProcessInit ==
    /\ calc_series = {} /\ mass_series = {}
    /\ all_images = <<>> /\ idx = 0
    /\ calc_moved = 0 /\ mass_moved = 0 /\ unknown_moved = 0
    /\ errors = 0 /\ printed = 0 /\ outcomes = <<>>
    /\ total_organized = 0 /\ success = FALSE /\ located = FALSE
    /\ final_mapping = <<>>
    /\ method = "csv" /\ calc_images = {} /\ mass_images = {} /\ unmatched = 0

Init ==
    /\ prog \in Programs
    /\ csv_dir \in CsvDirs
    /\ jpeg \in FileLists
    /\ unreadable \in SUBSET Range(jpeg)
    /\ dirs = {}
    /\ organized = [d \in DestDirs |-> {}]
    /\ run = 1
    /\ pc = "start"
    /\ prev = NoPrev
    /\ ProcessInit

\* ------------------------------------------------- cbis_correct.py: main()
\* CBISDDSMCorrectOrganizer.__init__: the three folders are made.
CorrectConstruct ==
    /\ prog = "correct" /\ pc = "start"
    /\ dirs' = Mkdir(Mkdir(Mkdir(dirs, CalcDir), MassDir), UnknownDir)
    /\ pc' = "organize"
    /\ UNCHANGED <<csv_dir, jpeg, unreadable, organized, prog, run,
                   loopvars, endvars, final_mapping, orgvars, prev>>

\* organize_all_images up to its loop: the two sets of series, the list of
\* images and the counters.
CorrectOrganizeStart ==
    /\ prog = "correct" /\ pc = "organize"
    /\ calc_series' = SeriesUidsStripped(CalcFiles, csv_dir)
    /\ mass_series' = SeriesUidsStripped(MassFiles, csv_dir)
    /\ all_images' = FindAllJpeg(jpeg)
    /\ idx' = 0
    /\ calc_moved' = 0 /\ mass_moved' = 0 /\ unknown_moved' = 0
    /\ errors' = 0 /\ printed' = 0 /\ outcomes' = <<>>
    /\ pc' = "loop"
    /\ UNCHANGED <<fsvars, prog, run, endvars, final_mapping, orgvars, prev>>

\* One iteration of the loop of organize_all_images: the image is copied into
\* the folder of its category and counted, or the exception is counted.
CorrectLoopStep ==
    /\ prog = "correct" /\ pc = "loop" /\ idx < Len(all_images)
    /\ LET f        == all_images[idx + 1]
           category == Category(SeriesUidOf(f), calc_series, mass_series)
           d        == DirOf(category)
       IN  /\ outcomes' = Append(outcomes, Outcome(f, category, d, dirs))
           /\ IF CopyRaises(f, d, dirs)
                THEN /\ errors' = errors + 1
                     /\ printed' = IF errors + 1 <= MaxErrorsPrinted
                                   THEN printed + 1 ELSE printed
                     /\ UNCHANGED <<organized, jpeg, calc_moved, mass_moved,
                                    unknown_moved>>
                ELSE /\ organized' = Copy2(organized, d, f)
                     /\ jpeg' = SourceAfterCopy(jpeg, f)
                     /\ calc_moved' = IF category = "calc"
                                      THEN calc_moved + 1 ELSE calc_moved
                     /\ mass_moved' = IF category = "mass"
                                      THEN mass_moved + 1 ELSE mass_moved
                     /\ unknown_moved' = IF category = "unknown"
                                         THEN unknown_moved + 1 ELSE unknown_moved
                     /\ UNCHANGED <<errors, printed>>
    /\ idx' = idx + 1
    /\ UNCHANGED <<csv_dir, unreadable, dirs, prog, run, pc, calc_series,
                   mass_series, all_images, endvars, final_mapping, orgvars, prev>>

\* The loop is over: the summary is printed and the counters are returned.
CorrectSummary ==
    /\ prog = "correct" /\ pc = "loop" /\ idx = Len(all_images)
    /\ pc' = "verify"
    /\ UNCHANGED <<fsvars, prog, run, loopvars, endvars, final_mapping, orgvars, prev>>

\* A verification that raises when the total is not the expected one.
AfterVerifyRaising(total) == IF total = ExpectedTotal THEN "report" ELSE "fatal"

\* Where verify_final_organization / verify_organization leaves the process:
\* both branches of its test print a line and go on to the return.
AfterVerify(total) == "report"

\* The number of files the verification pass counts in the three folders.
VerifiedTotal(org) ==
    Cardinality(GlobJpg(org, CalcDir)) + Cardinality(GlobJpg(org, MassDir))
        + Cardinality(GlobJpg(org, UnknownDir))

\* verify_final_organization: a warning when the total is not the expected
\* one; it returns in both cases.
CorrectVerify ==
    /\ prog = "correct" /\ pc = "verify"
    /\ total_organized' = VerifiedTotal(organized)
    /\ success' = (VerifiedTotal(organized) = ExpectedTotal)
    /\ pc' = AfterVerify(VerifiedTotal(organized))
    /\ UNCHANGED <<fsvars, prog, run, loopvars, located, final_mapping, orgvars, prev>>

\* The end of main(): the outcome and the output locations are printed.
CorrectReport ==
    /\ prog = "correct" /\ pc = "report"
    /\ located' = TRUE
    /\ pc' = "done"
    /\ UNCHANGED <<fsvars, prog, run, loopvars, total_organized, success,
                   final_mapping, orgvars, prev>>

\* --------------------------------------------------- cbis_final.py: main()
\* CBISDDSMFixedOrganizer.__init__: the three folders are made.
FixedConstruct ==
    /\ prog = "fixed" /\ pc = "start"
    /\ dirs' = Mkdir(Mkdir(Mkdir(dirs, CalcDir), MassDir), UnknownDir)
    /\ pc' = "organize"
    /\ UNCHANGED <<csv_dir, jpeg, unreadable, organized, prog, run,
                   loopvars, endvars, final_mapping, orgvars, prev>>

\* create_complete_mapping without dicom_info.csv: pd.read_csv raises, and
\* main() catches it, prints the error and ends.
FixedMappingRaises ==
    /\ prog = "fixed" /\ pc = "organize"
    /\ DicomInfo \notin csv_dir
    /\ pc' = "fatal"
    /\ UNCHANGED <<fsvars, prog, run, loopvars, endvars, final_mapping, orgvars, prev>>

\* organize_images up to its loop: create_complete_mapping and the counters.
FixedCreateMapping ==
    /\ prog = "fixed" /\ pc = "organize"
    /\ DicomInfo \in csv_dir
    /\ calc_series' = SeriesUidsUnstripped(CalcFiles, csv_dir)
    /\ mass_series' = SeriesUidsUnstripped(MassFiles, csv_dir)
    /\ all_images' = FindAllJpeg(jpeg)
    /\ final_mapping' = BuildMapping(FindAllJpeg(jpeg), <<>>,
                                     SeriesUidsUnstripped(CalcFiles, csv_dir),
                                     SeriesUidsUnstripped(MassFiles, csv_dir),
                                     DicomTable)
    /\ idx' = 0
    /\ calc_moved' = 0 /\ mass_moved' = 0 /\ unknown_moved' = 0
    /\ errors' = 0 /\ printed' = 0 /\ outcomes' = <<>>
    /\ pc' = "loop"
    /\ UNCHANGED <<fsvars, prog, run, endvars, orgvars, prev>>

\* One iteration of the loop of organize_images over final_mapping.items().
FixedLoopStep ==
    /\ prog = "fixed" /\ pc = "loop" /\ idx < Len(final_mapping)
    /\ LET info     == final_mapping[idx + 1]
           f        == info.full_path
           category == info.category
           d        == DirOf(category)
       IN  /\ outcomes' = Append(outcomes, Outcome(f, category, d, dirs))
           /\ IF CopyRaises(f, d, dirs)
                THEN /\ errors' = errors + 1
                     /\ printed' = IF errors + 1 <= MaxErrorsPrinted
                                   THEN printed + 1 ELSE printed
                     /\ UNCHANGED <<organized, jpeg, calc_moved, mass_moved,
                                    unknown_moved>>
                ELSE /\ organized' = Copy2(organized, d, f)
                     /\ jpeg' = SourceAfterCopy(jpeg, f)
                     /\ calc_moved' = IF category = "calc"
                                      THEN calc_moved + 1 ELSE calc_moved
                     /\ mass_moved' = IF category = "mass"
                                      THEN mass_moved + 1 ELSE mass_moved
                     /\ unknown_moved' = IF category \notin {"calc", "mass"}
                                         THEN unknown_moved + 1 ELSE unknown_moved
                     /\ UNCHANGED <<errors, printed>>
    /\ idx' = idx + 1
    /\ UNCHANGED <<csv_dir, unreadable, dirs, prog, run, pc, calc_series,
                   mass_series, all_images, endvars, final_mapping, orgvars, prev>>

\* The loop is over: the summary is printed and the counters are returned.
FixedSummary ==
    /\ prog = "fixed" /\ pc = "loop" /\ idx = Len(final_mapping)
    /\ pc' = "verify"
    /\ UNCHANGED <<fsvars, prog, run, loopvars, endvars, final_mapping, orgvars, prev>>

\* verify_organization: a warning when the total is not the expected one; the
\* total is returned in both cases.
FixedVerify ==
    /\ prog = "fixed" /\ pc = "verify"
    /\ total_organized' = VerifiedTotal(organized)
    /\ success' = (VerifiedTotal(organized) = ExpectedTotal)
    /\ pc' = AfterVerify(VerifiedTotal(organized))
    /\ UNCHANGED <<fsvars, prog, run, loopvars, located, final_mapping, orgvars, prev>>

\* The end of main(): the outcome and the output location are printed.
FixedReport ==
    /\ prog = "fixed" /\ pc = "report"
    /\ located' = TRUE
    /\ pc' = "done"
    /\ UNCHANGED <<fsvars, prog, run, loopvars, total_organized, success,
                   final_mapping, orgvars, prev>>

\* ------------------------------------- cbis_final.py: the Organizer driver
\* CBISDDSMOrganizer.__init__: the calcifications and masses folders are
\* made; the driver then calls run(method='csv').
OrganizerConstruct ==
    /\ prog = "organizer" /\ pc = "start"
    /\ dirs' = Mkdir(Mkdir(dirs, CalcDir), MassDir)
    /\ method' = "csv"
    /\ pc' = "run"
    /\ UNCHANGED <<csv_dir, jpeg, unreadable, organized, prog, run, loopvars,
                   endvars, final_mapping, calc_images, mass_images,
                   unmatched, prev>>

\* run(): load_csv_files, then the chosen method up to its loop.
OrganizerRunStart ==
    /\ prog = "organizer" /\ pc = "run"
    /\ calc_images' = IF method = "csv" THEN CalcImages(csv_dir) ELSE calc_images
    /\ mass_images' = IF method = "csv" THEN MassImages(csv_dir) ELSE mass_images
    /\ all_images' = FindAllJpeg(jpeg)
    /\ idx' = 0
    /\ calc_moved' = 0 /\ mass_moved' = 0 /\ unknown_moved' = 0
    /\ unmatched' = 0
    /\ outcomes' = <<>>
    /\ pc' = "loop"
    /\ UNCHANGED <<fsvars, prog, run, calc_series, mass_series, errors,
                   printed, endvars, final_mapping, method, prev>>

\* One iteration of the loop of organize_images_by_csv_mapping: a matched
\* image is copied and counted, an unmatched one is only counted.  An
\* exception of the copy leaves run(); the driver catches it and calls
\* run(method='pattern').
OrganizerCsvStep ==
    /\ prog = "organizer" /\ pc = "loop" /\ method = "csv"
    /\ idx < Len(all_images)
    /\ LET f        == all_images[idx + 1]
           category == CsvCategory(f, calc_images, mass_images)
           d        == DirOf(category)
       IN  IF category = "unmatched"
           THEN /\ unmatched' = unmatched + 1
                /\ idx' = idx + 1
                /\ UNCHANGED <<organized, jpeg, calc_moved, mass_moved,
                               method, pc, outcomes>>
           ELSE IF CopyRaises(f, d, dirs)
           THEN /\ outcomes' = Append(outcomes, Outcome(f, category, d, dirs))
                /\ method' = "pattern"
                /\ pc' = "run"
                /\ UNCHANGED <<organized, jpeg, calc_moved, mass_moved,
                               unmatched, idx>>
           ELSE /\ outcomes' = Append(outcomes, Outcome(f, category, d, dirs))
                /\ organized' = Copy2(organized, d, f)
                /\ jpeg' = SourceAfterCopy(jpeg, f)
                /\ calc_moved' = IF category = "calc"
                                 THEN calc_moved + 1 ELSE calc_moved
                /\ mass_moved' = IF category = "mass"
                                 THEN mass_moved + 1 ELSE mass_moved
                /\ idx' = idx + 1
                /\ UNCHANGED <<unmatched, method, pc>>
    /\ UNCHANGED <<csv_dir, unreadable, dirs, prog, run, calc_series,
                   mass_series, all_images, unknown_moved, errors, printed,
                   endvars, final_mapping, calc_images, mass_images, prev>>

\* One iteration of the loop of organize_images_by_filename_pattern.  The
\* unknown folder is made when an image needs it.  An exception of the copy
\* leaves run() and, in the driver's except block, the script.
OrganizerPatternStep ==
    /\ prog = "organizer" /\ pc = "loop" /\ method = "pattern"
    /\ idx < Len(all_images)
    /\ LET f        == all_images[idx + 1]
           category == PatternCategory(f)
           d        == DirOf(category)
           made     == IF category = "unknown" THEN Mkdir(dirs, UnknownDir)
                       ELSE dirs
       IN  /\ dirs' = made
           /\ outcomes' = Append(outcomes, Outcome(f, category, d, made))
           /\ IF CopyRaises(f, d, made)
              THEN /\ pc' = "crashed"
                   /\ UNCHANGED <<organized, jpeg, calc_moved, mass_moved,
                                  unknown_moved, idx>>
              ELSE /\ organized' = Copy2(organized, d, f)
                   /\ jpeg' = SourceAfterCopy(jpeg, f)
                   /\ calc_moved' = IF category = "calc"
                                    THEN calc_moved + 1 ELSE calc_moved
                   /\ mass_moved' = IF category = "mass"
                                    THEN mass_moved + 1 ELSE mass_moved
                   /\ unknown_moved' = IF category = "unknown"
                                       THEN unknown_moved + 1 ELSE unknown_moved
                   /\ idx' = idx + 1
                   /\ UNCHANGED pc
    /\ UNCHANGED <<csv_dir, unreadable, prog, run, calc_series, mass_series,
                   all_images, errors, printed, endvars, final_mapping,
                   orgvars, prev>>

\* The loop of either method is over: the summary and "Organization
\* complete!" are printed, and the script ends.
OrganizerSummary ==
    /\ prog = "organizer" /\ pc = "loop" /\ idx = Len(all_images)
    /\ pc' = "done"
    /\ UNCHANGED <<fsvars, prog, run, loopvars, endvars, final_mapping,
                   orgvars, prev>>

\* ---------------------------------------------------------- a further run
\* The script is started again on the dataset as the last execution left it.
Rerun ==
    /\ pc \in {"done", "fatal", "crashed"} /\ run < MaxRuns
    /\ prev' = [run |-> run,
                counts |-> <<calc_moved, mass_moved, unknown_moved, errors>>,
                organized |-> organized]
    /\ run' = run + 1
    /\ pc' = "start"
    /\ calc_series' = {} /\ mass_series' = {}
    /\ all_images' = <<>> /\ idx' = 0
    /\ calc_moved' = 0 /\ mass_moved' = 0 /\ unknown_moved' = 0
    /\ errors' = 0 /\ printed' = 0 /\ outcomes' = <<>>
    /\ total_organized' = 0 /\ success' = FALSE /\ located' = FALSE
    /\ final_mapping' = <<>>
    /\ method' = "csv" /\ calc_images' = {} /\ mass_images' = {}
    /\ unmatched' = 0
    /\ UNCHANGED <<fsvars, prog>>

Next ==
    \/ CorrectConstruct
    \/ CorrectOrganizeStart
    \/ CorrectLoopStep
    \/ CorrectSummary
    \/ CorrectVerify
    \/ CorrectReport
    \/ FixedConstruct
    \/ FixedMappingRaises
    \/ FixedCreateMapping
    \/ FixedLoopStep
    \/ FixedSummary
    \/ FixedVerify
    \/ FixedReport
    \/ OrganizerConstruct
    \/ OrganizerRunStart
    \/ OrganizerCsvStep
    \/ OrganizerPatternStep
    \/ OrganizerSummary
    \/ Rerun

Spec == Init /\ [][Next]_vars

\* ======================================================================
\* The claims
\* ======================================================================
\* The loop of the run is over.
LoopOver == pc \in {"verify", "report", "done"}

\* The number of calls of shutil.copy2 of this run made for file f.
Handed(f) == Cardinality({i \in DOMAIN outcomes : outcomes[i].file = f})

\* C1 (as claimed): in organize_all_images and in create_complete_mapping /
\* organize_images, every discovered file, also one that shares its filename
\* with a file of another series folder, is handed to the copy step exactly
\* once.
C1_EveryFileHandedOnce ==
    (prog \in {"correct", "fixed"} /\ LoopOver) =>
        \A f \in Range(all_images) : Handed(f) = 1

\* C2 (as claimed): the source applied last overwrites: a series of the mass
\* case files is mass, whether or not the calc case files hold it too.
C2_LastAppliedWins ==
    prog \in {"correct", "fixed"} =>
        \A i \in DOMAIN outcomes :
            LET uid == SeriesUidOf(outcomes[i].file)
            IN  /\ uid \in mass_series => outcomes[i].category = "mass"
                /\ uid \in calc_series \ mass_series
                       => outcomes[i].category = "calc"

\* C2 (amended): the source consulted first decides: a series of the calc case
\* files is calcification, also when the mass case files, loaded later, hold
\* it; a series of the mass case files alone is mass; dicom_info is looked at
\* only for a series of neither, and a file it does not name is unknown.
C2_FirstConsultedWins ==
    prog \in {"correct", "fixed"} =>
        \A i \in DOMAIN outcomes :
            LET uid == SeriesUidOf(outcomes[i].file)
            IN  /\ uid \in calc_series => outcomes[i].category = "calc"
                /\ uid \in mass_series \ calc_series
                       => outcomes[i].category = "mass"
                /\ (/\ uid \notin calc_series \cup mass_series
                    /\ \/ prog = "correct"
                       \/ ~HasFilename(DicomTable, Name(outcomes[i].file)))
                       => outcomes[i].category = "unknown"

\* A file of a series that both the calc and the mass case files hold, which
\* dicom_info names with a mass patient, has been copied as calcification.
C2_Witness ==
    /\ prog = "fixed"
    /\ \E i \in DOMAIN outcomes :
          /\ SeriesUidOf(outcomes[i].file) \in calc_series \cap mass_series
          /\ PatientCategory(DicomTable, Name(outcomes[i].file))[1] = "mass"
          /\ outcomes[i].category = "calc"
          /\ outcomes[i].copied
          /\ outcomes[i].file \in organized[CalcDir]

\* The file matches no metadata source of the method that is run.
Unresolved(f) ==
    CASE prog = "correct" ->
            SeriesUidOf(f) \notin calc_series \cup mass_series
      [] prog = "fixed" ->
            /\ SeriesUidOf(f) \notin calc_series \cup mass_series
            /\ PatientCategory(DicomTable, Name(f))[1] = "unknown"
      [] prog = "organizer" /\ method = "csv" ->
            \A ref \in calc_images \cup mass_images : ~RefMatches(f, ref)
      [] OTHER ->
            /\ ~Contains(Lower(PathStr(f)), <<"calc">>)
            /\ ~Contains(Lower(PathStr(f)), <<"mass">>)

\* C3 (as claimed): in every organizing method, when the run is over every
\* discovered file that matches no metadata source (and can be read) lies in
\* the unknown folder, and none of them was counted as an error.
C3_UnresolvedCopiedToUnknown ==
    pc = "done" =>
        \A f \in Range(all_images) :
            (Unresolved(f) /\ f \notin unreadable) =>
                /\ \E g \in organized[UnknownDir] : Name(g) = Name(f)
                /\ errors = Cardinality({i \in DOMAIN outcomes :
                                            ~outcomes[i].copied})

\* The category the classifier of the script gives a file of this dataset.
Resolved(f) ==
    IF prog = "correct"
    THEN Category(SeriesUidOf(f), SeriesUidsStripped(CalcFiles, csv_dir),
                  SeriesUidsStripped(MassFiles, csv_dir))
    ELSE MappingCategory(f, SeriesUidsUnstripped(CalcFiles, csv_dir),
                         SeriesUidsUnstripped(MassFiles, csv_dir), DicomTable)[1]

\* C4: from empty output folders on, in CBISDDSMCorrectOrganizer and in
\* CBISDDSMFixedOrganizer every file of the calcifications folder was resolved
\* to calc, every file of the masses folder to mass and every file of the
\* unknown folder to unknown.
C4_FoldersHoldTheirCategory ==
    prog \in {"correct", "fixed"} =>
        /\ \A g \in organized[CalcDir]    : Resolved(g) = "calc"
        /\ \A g \in organized[MassDir]    : Resolved(g) = "mass"
        /\ \A g \in organized[UnknownDir] : Resolved(g) = "unknown"

\* A run is over with two files of one name, of a calc and of a mass series,
\* each in the folder of its category.
C4_Witness ==
    /\ prog = "correct" /\ pc = "done"
    /\ \E g \in organized[CalcDir], h \in organized[MassDir] :
          /\ Name(g) = Name(h)
          /\ Resolved(g) = "calc" /\ Resolved(h) = "mass"

\* C5 (as claimed): whenever a call of shutil.copy2 raises, the error counter
\* goes up by one, it is printed if it is one of the first five, the moved
\* counters stay, and the loop goes on with the next file.
C5_CopyFailureCounted ==
    [][ (/\ Len(outcomes') = Len(outcomes) + 1
         /\ ~outcomes'[Len(outcomes')].copied)
        => /\ errors' = errors + 1
           /\ printed' = IF errors + 1 <= MaxErrorsPrinted
                         THEN printed + 1 ELSE printed
           /\ UNCHANGED <<calc_moved, mass_moved, unknown_moved>>
           /\ pc' = "loop"
           /\ idx' = idx + 1 ]_vars

\* The execution has ended.
RunOver == pc \in {"done", "fatal", "crashed"}

\* C6: when a second execution on the same dataset is over, its counters are
\* those the first execution ended with and the three folders hold what the
\* first execution left in them.
C6_SecondRunSame ==
    (run >= 2 /\ RunOver) =>
        /\ <<calc_moved, mass_moved, unknown_moved, errors>> = prev.counts
        /\ organized = prev.organized

\* A second execution is over that copied files and counted an error.
C6_Witness ==
    /\ run = 2 /\ pc = "done" /\ prev.run = 1
    /\ calc_moved + mass_moved >= 1
    /\ errors >= 1
    /\ organized[CalcDir] \cup organized[MassDir] /= {}

\* The number of discovered files the classifier resolves to a category.
ResolvedCount(category) ==
    Cardinality({i \in DOMAIN all_images : Resolved(all_images[i]) = category})

\* C7 (as claimed): absent copy failures, each counter at the end is the
\* number of discovered files that resolve to its category.
C7_CountersMatchResolvedFiles ==
    (prog \in {"correct", "fixed"} /\ LoopOver /\ errors = 0) =>
        /\ calc_moved = ResolvedCount("calc")
        /\ mass_moved = ResolvedCount("mass")
        /\ unknown_moved = ResolvedCount("unknown")

\* C8 (as claimed): the total the verification pass reports is the number of
\* files that lie in the three folders.
C8_VerifyCountsAllFiles ==
    (prog \in {"correct", "fixed"} /\ pc \in {"report", "done"}) =>
        total_organized = Cardinality(organized[CalcDir])
                            + Cardinality(organized[MassDir])
                            + Cardinality(organized[UnknownDir])

\* C9: a verification whose total is not the expected one returns with
\* success = False, and main() then prints the output locations and ends; the
\* fatal path is not entered.
C9_MismatchIsOnlyAWarning ==
    [][ /\ (pc = "verify" /\ VerifiedTotal(organized) /= ExpectedTotal)
            => /\ pc' = "report"
               /\ success' = FALSE
               /\ total_organized' = VerifiedTotal(organized)
        /\ (pc = "report" /\ total_organized /= ExpectedTotal)
            => /\ pc' = "done"
               /\ located' = TRUE ]_vars

\* main() has ended after a verification that counted files, fewer than
\* expected.
C9_Witness ==
    /\ pc = "done" /\ located /\ ~success
    /\ total_organized >= 1 /\ total_organized /= ExpectedTotal

\* No two discovered files share a filename.
NoCollision ==
    \A i, j \in DOMAIN all_images :
        i /= j => Name(all_images[i]) /= Name(all_images[j])

\* The place of a discovered file in the processing order.
Position(f) == CHOOSE i \in DOMAIN all_images : all_images[i] = f

\* The folder of a category.
FolderOf(category) ==
    CASE category = "calc" -> "calcifications"
      [] category = "mass" -> "masses"
      [] OTHER             -> "unknown"

\* The files of the tree that can be read and resolve to the folder d.
Expected(d) ==
    {f \in Range(jpeg) : f \notin unreadable /\ FolderOf(Resolved(f)) = d}

\* The files that compete with g for its name in folder d: in organize_all_images
\* the readable files of that name and that folder, in organize_images every
\* file of that name.
Contenders(g, d) ==
    {f \in Range(all_images) :
        /\ Name(f) = Name(g)
        /\ prog = "correct" => (f \notin unreadable /\ FolderOf(Resolved(f)) = d)}

\* C10: when the loop is over and no two discovered files share a filename,
\* the folders and the counters are given by the set of files alone, whatever
\* the processing order; when filenames collide, a folder holds under that
\* name the contender that was processed last.
C10_OrderMattersOnlyOnCollision ==
    (prog \in {"correct", "fixed"} /\ LoopOver) =>
        /\ NoCollision =>
              /\ \A d \in DestDirs : organized[d] = Expected(d)
              /\ calc_moved = Cardinality(Expected("calcifications"))
              /\ mass_moved = Cardinality(Expected("masses"))
              /\ unknown_moved = Cardinality(Expected("unknown"))
              /\ errors = Cardinality(Range(jpeg) \cap unreadable)
        /\ \A d \in DestDirs : \A g \in organized[d] :
              \A f \in Contenders(g, d) : Position(f) <= Position(g)

\* Two readable files of one name and one category were processed, and the
\* folder holds the one processed later.
C10_Witness ==
    /\ pc = "done" /\ prog = "correct"
    /\ \E i, j \in DOMAIN all_images :
          /\ i < j
          /\ Name(all_images[i]) = Name(all_images[j])
          /\ all_images[i] \notin unreadable
          /\ Resolved(all_images[i]) = Resolved(all_images[j])
          /\ all_images[j] \in organized[FolderOf(Resolved(all_images[j]))]
          /\ all_images[i] \notin organized[FolderOf(Resolved(all_images[i]))]

\* The last discovered file that has the name and the category of f.
LastLike(f) ==
    LET like == {k \in DOMAIN all_images :
                    /\ Name(all_images[k]) = Name(f)
                    /\ Resolved(all_images[k]) = Resolved(f)}
    IN  all_images[CHOOSE k \in like : \A m \in like : m <= k]

\* C11 (as claimed): when no copy fails and two discovered files of different
\* subdirectories share a filename and a category, both were handed to
\* shutil.copy2, the earlier one first, no error is counted, and the folder
\* of the category holds under that name one file, the one copied last.
C11_BothCopiedLaterWins ==
    (prog \in {"correct", "fixed"} /\ LoopOver /\ unreadable = {}) =>
        \A i, j \in DOMAIN all_images :
            (/\ i < j
             /\ all_images[i].dir /= all_images[j].dir
             /\ Name(all_images[i]) = Name(all_images[j])
             /\ Resolved(all_images[i]) = Resolved(all_images[j]))
            => /\ errors = 0
               /\ \E a, b \in DOMAIN outcomes :
                     /\ a < b
                     /\ outcomes[a].file = all_images[i] /\ outcomes[a].copied
                     /\ outcomes[b].file = all_images[j] /\ outcomes[b].copied
               /\ {g \in organized[FolderOf(Resolved(all_images[j]))] :
                       Name(g) = Name(all_images[j])}
                    = {LastLike(all_images[j])}

\* C12 (as claimed): whichever metadata files are absent from the csv folder,
\* the step that builds the index ends at the head of the classify-and-copy
\* loop with every image of the tree discovered, and case description files
\* that are all absent leave their series set empty.
C12_MissingSourceIsSkipped ==
    [][ (pc \in {"organize", "run"})
        => (/\ pc' = "loop"
            /\ all_images' = FindAllJpeg(jpeg)
            /\ ((prog /= "organizer" /\ Range(CalcFiles) \cap csv_dir = {})
                  => (calc_series' = {}))
            /\ ((prog /= "organizer" /\ Range(MassFiles) \cap csv_dir = {})
                  => (mass_series' = {}))) ]_vars

\* A step that calls shutil.copy2.
CopyAttempted == Len(outcomes') = Len(outcomes) + 1

\* C13 (as claimed): when the first copy of a run is attempted the folders of
\* all three categories exist.
C13_AllFoldersBeforeFirstCopy ==
    [][ (CopyAttempted /\ Len(outcomes) = 0) => (DestDirs \subseteq dirs') ]_vars

\* C13 (amended): whenever a copy is attempted its destination folder exists.
\* CBISDDSMCorrectOrganizer and CBISDDSMFixedOrganizer have all three folders
\* from the constructor on; CBISDDSMOrganizer has calcifications and masses
\* from the constructor on and unknown from the first copy of the pattern
\* method into it.  Constructing an organizer over folders that exist leaves
\* the folders and what they hold as they are.
C13_DestinationExistsAtCopy ==
    [][ /\ CopyAttempted
           => (FolderOf(outcomes'[Len(outcomes')].category) \in dirs')
        /\ (CopyAttempted /\ prog \in {"correct", "fixed"})
           => (DestDirs \subseteq dirs)
        /\ (CopyAttempted /\ prog = "organizer")
           => ({"calcifications", "masses"} \subseteq dirs)
        /\ (pc = "start" /\ pc' /= "start")
           => (/\ organized' = organized
               /\ dirs \subseteq dirs'
               /\ (DestDirs \subseteq dirs) => (dirs' = dirs)) ]_vars

\* The pattern method has copied a file into the unknown folder, which it
\* made on the way, after the constructor had made the other two.
C13_Witness ==
    /\ prog = "organizer" /\ method = "pattern"
    /\ dirs = DestDirs
    /\ \E i \in DOMAIN outcomes :
          /\ outcomes[i].category = "unknown" /\ outcomes[i].copied
          /\ outcomes[i].file \in organized[UnknownDir]

\* The places of the slashes of a path.
Slashes(s) == {i \in DOMAIN s : s[i] = "/"}

\* What lies between the first slash of a path and its second slash, or its
\* end.
SecondSegment(s) ==
    LET first == CHOOSE i \in Slashes(s) : \A j \in Slashes(s) : i <= j
        later == {i \in Slashes(s) : i > first}
        stop  == IF later = {} THEN Len(s) + 1
                 ELSE CHOOSE i \in later : \A j \in later : i <= j
    IN  SubSeq(s, first + 1, stop - 1)

\* A cell that is present, not blank and has two segments or more.
UsablePath(cell) ==
    /\ cell /= NaN
    /\ \E i \in DOMAIN cell : cell[i] /= " "
    /\ Slashes(cell) /= {}

\* The identifiers the rows of the files of a list that exist contribute.
Contributed(files) ==
    UNION { {SecondSegment(cell) : cell \in {c \in Range(CaseTable(t)) : UsablePath(c)}} :
            t \in Range(files) \cap csv_dir }

KeywordCategory(text) ==
    IF Contains(Lower(text), <<"mass">>) THEN "mass"
    ELSE IF Contains(Lower(text), <<"calc">>) THEN "calc"
    ELSE "unknown"

\* The PatientName create_complete_mapping looks at for a filename.
PatientNameOf(filename) ==
    MatchingRows(DicomTable, FilenameToSeries(DicomTable, filename))[1].PatientName

\* C15 (as claimed): wherever a category is derived from keywords, it is mass
\* for a text that contains 'mass' in any case, else calc for a text that
\* contains 'calc', else unknown: for the PatientName of the dicom_info
\* fallback and for the path of the filename-pattern method alike.
C15_MassBeforeCalcEverywhere ==
    \A i \in DOMAIN outcomes :
        LET f == outcomes[i].file
        IN  /\ (prog = "organizer" /\ method = "pattern" /\ pc /= "run")
                => outcomes[i].category = KeywordCategory(PathStr(f))
            /\ (/\ prog = "fixed"
                /\ SeriesUidOf(f) \notin calc_series \cup mass_series
                /\ HasFilename(DicomTable, Name(f))
                /\ PatientNameOf(Name(f)) /= NaN)
                => outcomes[i].category = KeywordCategory(PatientNameOf(Name(f)))

CopiedCount(category) ==
    Cardinality({i \in DOMAIN outcomes :
                    outcomes[i].copied /\ outcomes[i].category = category})

\* C17 (as claimed): in organize_all_images and organize_images the four
\* counters add up to the number of files processed so far while the loop
\* runs and to the number of discovered files once it is over, and each
\* moved counter is the number of copies of its category that succeeded.
C17_CountersAddUp ==
    prog \in {"correct", "fixed"} =>
        /\ pc = "loop" => calc_moved + mass_moved + unknown_moved + errors = idx
        /\ LoopOver => calc_moved + mass_moved + unknown_moved + errors
                          = Len(all_images)
        /\ (pc = "loop" \/ LoopOver) =>
              /\ calc_moved = CopiedCount("calc")
              /\ mass_moved = CopiedCount("mass")
              /\ unknown_moved = CopiedCount("unknown")

\* C18 (as claimed): in an execution of the CBISDDSMOrganizer driver that
\* started from empty folders, no file lies in more than one category folder.
C18_NoFileInTwoFolders ==
    (prog = "organizer" /\ run = 1) =>
        \A d, e \in DestDirs :
            d /= e => organized[d] \cap organized[e] = {}

====
